---- MODULE Spec2Model ----
(***************************************************************************)
(* Model of the Assetto Corsa server log watcher (ac_server_log_watch.py)  *)
(* and of the lap-time formatter of the web application (app/main.py).     *)
(*                                                                         *)
(* Python strings are modelled as sequences of one-character strings, so   *)
(* that splitting, stripping, URL-unquoting and int() act on characters.   *)
(* Python's None is the value None below; it is no string, because every   *)
(* element of a modelled string is a single character (or the name of one  *)
(* control character), never the four-letter word.                         *)
(***************************************************************************)
EXTENDS Integers, Sequences, FiniteSets, TLC

VARIABLES
    \* ---- Session state of the poll loop (ac_server_log_watch.py:155-163)
    player_car_map,             \* dict player -> car
    pending_cars_queue,         \* list of {"player": None, "car": car}
    pending_laps,               \* list of {"player", "laptime", "track"}
    last_lap,                   \* <<>> for None, else <<{"player","lap_ms"}>>
    observed_track_candidate,   \* string or None
    observed_config_candidate,  \* string or None
    lap_times,                  \* committed rows of table lap_times
    line,                       \* the line the loop body ran on last
    printed,                    \* status lines print()ed for that line
    raised,                     \* exception that left the loop, or "none"
    nlines,                     \* lines the loop body has run on
    feed,                       \* which kind of log the run reads
    dropped,                    \* history: the last_lap the last lap-report replaced
    \* ---- File tailer (ac_server_log_watch.py:155, 168-179, 334-337)
    files,                      \* logfile -> characters of the file
    file_positions,             \* dict logfile -> offset
    yielded,                    \* logfile -> raw lines the last poll iterated
    at_last_poll,               \* logfile -> file content at its last full read
    at_prev_poll,               \* logfile -> file content at the full read before
    prev_positions,             \* file_positions before the last poll
    truncated,                  \* number of characters cut off the log files
    \* ---- Inputs and results of the pure helpers
    lap_str, ms_in, codec_out,
    candidates, track_out

sessionVars == <<player_car_map, pending_cars_queue, pending_laps, last_lap,
                 observed_track_candidate, observed_config_candidate,
                 lap_times, line, printed, nlines, feed, dropped>>
tailVars == <<files, file_positions, yielded, at_last_poll, at_prev_poll,
             prev_positions, truncated>>
codecVars == <<lap_str, ms_in, codec_out>>
trackVars == <<candidates, track_out>>
vars == <<sessionVars, raised, tailVars, codecVars, trackVars>>

None == <<"None">>

(***************************************************************************)
(* Characters and the str methods the script uses.                         *)
(***************************************************************************)
Digits == <<"0", "1", "2", "3", "4", "5", "6", "7", "8", "9">>

UpperCase == <<"A", "B", "C", "D", "E", "F", "G", "H", "I", "J", "K", "L", "M",
               "N", "O", "P", "Q", "R", "S", "T", "U", "V", "W", "X", "Y", "Z">>

LowerCase == <<"a", "b", "c", "d", "e", "f", "g", "h", "i", "j", "k", "l", "m",
               "n", "o", "p", "q", "r", "s", "t", "u", "v", "w", "x", "y", "z">>

\* chr(32) .. chr(126)
Printable == <<" ", "!", "\"", "#", "$", "%", "&", "'", "(", ")", "*", "+", ",",
               "-", ".", "/", "0", "1", "2", "3", "4", "5", "6", "7", "8", "9",
               ":", ";", "<", "=", ">", "?", "@",
               "A", "B", "C", "D", "E", "F", "G", "H", "I", "J", "K", "L", "M",
               "N", "O", "P", "Q", "R", "S", "T", "U", "V", "W", "X", "Y", "Z",
               "[", "\\", "]", "^", "_", "<60>",
               "a", "b", "c", "d", "e", "f", "g", "h", "i", "j", "k", "l", "m",
               "n", "o", "p", "q", "r", "s", "t", "u", "v", "w", "x", "y", "z",
               "{", "|", "}", "~">>

\* chr(0) .. chr(31), named
Control == <<"<00>", "<01>", "<02>", "<03>", "<04>", "<05>", "<06>", "<07>",
             "<08>", "\t", "\n", "<0B>", "<0C>", "\r", "<0E>", "<0F>",
             "<10>", "<11>", "<12>", "<13>", "<14>", "<15>", "<16>", "<17>",
             "<18>", "<19>", "<1A>", "<1B>", "<1C>", "<1D>", "<1E>", "<1F>">>

\* what str.strip() removes among the characters above
Whitespace == {" ", "\t", "\n", "\r", "<0B>", "<0C>", "<1C>", "<1D>", "<1E>", "<1F>"}

IndexIn(c, table) == CHOOSE i \in 1..Len(table) : table[i] = c

IsIn(c, table) == \E i \in 1..Len(table) : table[i] = c

\* str.lower() on one character
LowerChar(c) == IF IsIn(c, UpperCase) THEN LowerCase[IndexIn(c, UpperCase)] ELSE c

lower(s) == [i \in 1..Len(s) |-> LowerChar(s[i])]

\* '<c>' in s
Contains(s, c) == \E i \in 1..Len(s) : s[i] = c

RECURSIVE lstrip(_)
lstrip(s) == IF s # <<>> /\ Head(s) \in Whitespace THEN lstrip(Tail(s)) ELSE s

RECURSIVE rstrip(_)
rstrip(s) ==
    IF s # <<>> /\ s[Len(s)] \in Whitespace THEN rstrip(SubSeq(s, 1, Len(s) - 1)) ELSE s

strip(s) == rstrip(lstrip(s))

\* s.rstrip(c) for one character c
RECURSIVE rstripChar(_, _)
rstripChar(s, c) ==
    IF s # <<>> /\ s[Len(s)] = c THEN rstripChar(SubSeq(s, 1, Len(s) - 1), c) ELSE s

\* s.replace(a, b) for single characters
replace(s, a, b) == [i \in 1..Len(s) |-> IF s[i] = a THEN b ELSE s[i]]

\* s.split(sep) for a one-character separator: always at least one part
RECURSIVE split(_, _)
split(s, sep) ==
    IF ~Contains(s, sep) THEN <<s>>
    ELSE LET i == CHOOSE j \in 1..Len(s) :
                      s[j] = sep /\ \A k \in 1..(j - 1) : s[k] # sep
         IN  <<SubSeq(s, 1, i - 1)>> \o split(SubSeq(s, i + 1, Len(s)), sep)

\* str.isdigit(), and the strings int() accepts among those over [\d:.]
isdigit(s) == s # <<>> /\ \A i \in 1..Len(s) : IsIn(s[i], Digits)

RECURSIVE int(_)
int(s) == IF s = <<>> THEN 0
          ELSE 10 * int(SubSeq(s, 1, Len(s) - 1)) + (IndexIn(s[Len(s)], Digits) - 1)

\* str(n) for n >= 0
RECURSIVE str(_)
str(n) == IF n < 10 THEN <<Digits[n + 1]>> ELSE str(n \div 10) \o <<Digits[(n % 10) + 1]>>

\* f"{n:0<width>d}"
RECURSIVE zfill(_, _)
zfill(s, width) == IF Len(s) >= width THEN s ELSE zfill(<<"0">> \o s, width)

(***************************************************************************)
(* Lap-time codec.                                                         *)
(***************************************************************************)
\* The result of a call that may raise: raised names the exception.
Returned(v) == [raised |-> "none", value |-> v]
Raises(e) == [raised |-> e, value |-> 0]

\* int(m) * 60000 + int(s) * 1000 + int(ms) raises as soon as one int() does
lap_to_ms(lap) ==
    LET parts == split(lap, ":")
    IN  IF Len(parts) = 3
        THEN IF isdigit(parts[1]) /\ isdigit(parts[2]) /\ isdigit(parts[3])
             THEN Returned(int(parts[1]) * 60000 + int(parts[2]) * 1000 + int(parts[3]))
             ELSE Raises("ValueError")
        ELSE IF Len(parts) = 2
        THEN IF isdigit(parts[1]) /\ isdigit(parts[2])
             THEN Returned(int(parts[1]) * 60000 + int(parts[2]) * 1000)
             ELSE Raises("ValueError")
        ELSE IF isdigit(parts[1]) THEN Returned(int(parts[1]))
             ELSE Raises("ValueError")

format_laptime(ms) ==
    LET minutes == ms \div 60000
        seconds == (ms % 60000) \div 1000
        millis  == ms % 1000
    IN  str(minutes) \o <<":">> \o zfill(str(seconds), 2) \o <<".">> \o zfill(str(millis), 3)

(***************************************************************************)
(* Track identity resolver.                                                *)
(***************************************************************************)
HexDigits == <<"0", "1", "2", "3", "4", "5", "6", "7", "8", "9",
               "a", "b", "c", "d", "e", "f", "A", "B", "C", "D", "E", "F">>

HexVal(c) == LET i == IndexIn(c, HexDigits) IN IF i <= 16 THEN i - 1 ELSE i - 7

\* The character a percent-escaped byte decodes to (utf-8, errors='replace').
\* A byte over 127 that no continuation byte follows is replaced by U+FFFD;
\* the input alphabets below form no continuation byte (%80..%BF).
Chr(b) == IF b < 32 THEN Control[b + 1]
          ELSE IF b < 127 THEN Printable[b - 31]
          ELSE IF b = 127 THEN "<7F>"
          ELSE "<FFFD>"

\* urllib.parse.unquote: one pass, %XX with two hex digits becomes its
\* character, any other % stays
RECURSIVE unquote(_)
unquote(s) ==
    IF s = <<>> THEN <<>>
    ELSE IF s[1] = "%" /\ Len(s) >= 3 /\ IsIn(s[2], HexDigits) /\ IsIn(s[3], HexDigits)
    THEN <<Chr(16 * HexVal(s[2]) + HexVal(s[3]))>> \o unquote(SubSeq(s, 4, Len(s)))
    ELSE <<s[1]>> \o unquote(Tail(s))

bad == { <<>>, <<".">>, <<".", ".">>, <<"c", "s", "p">>,
         <<"c", "o", "n", "t", "e", "n", "t">>, <<"t", "r", "a", "c", "k", "s">>,
         <<"d", "a", "t", "a">>, <<"c", "f", "g">>, <<"0">> }

clean_tokens(tokens) == SelectSeq(tokens, LAMBDA t : t # <<>> /\ lower(t) \notin bad)

\* Python truthiness of a str-or-None value
Truthy(s) == s # None /\ s # <<>>

parse_track_from_string(s) ==
    IF ~Truthy(s) THEN None
    ELSE LET raw     == split(replace(unquote(s), "\\", "/"), "/")
             parts   == clean_tokens([i \in 1..Len(raw) |-> strip(raw[i])])
         IN  IF parts = <<>> THEN None
             ELSE IF Len(parts) >= 2
             THEN LET track  == parts[Len(parts) - 1]
                      layout == IF Contains(parts[Len(parts)], ".") THEN None
                                ELSE parts[Len(parts)]
                  IN  IF Truthy(layout) THEN track \o <<"-">> \o layout ELSE track
             ELSE parts[Len(parts)]

\* the config candidate taken before the track candidate
normalize_config_first(track_candidate, config_candidate) ==
    LET t1 == IF Truthy(track_candidate) THEN parse_track_from_string(track_candidate)
              ELSE None
        t2 == IF Truthy(config_candidate) THEN parse_track_from_string(config_candidate)
              ELSE None
    IN  IF Truthy(t2) /\ Contains(t2, "-") THEN t2
        ELSE IF Truthy(t1) /\ Contains(t1, "-") THEN t1
        ELSE IF Truthy(t2) THEN t2
        ELSE IF Truthy(t1) THEN t1
        ELSE <<"u", "n", "k", "n", "o", "w", "n">>

normalize_track(track_candidate, config_candidate) ==
    LET t1 == IF Truthy(track_candidate) THEN parse_track_from_string(track_candidate)
              ELSE None
        t2 == IF Truthy(config_candidate) THEN parse_track_from_string(config_candidate)
              ELSE None
        base1 == IF Truthy(t1) THEN split(t1, "-")[1] ELSE None
        base2 == IF Truthy(t2) THEN split(t2, "-")[1] ELSE None
    IN  IF Truthy(t1) /\ Contains(t1, "-") THEN t1
        ELSE IF Truthy(t2) /\ Contains(t2, "-") THEN t2
        ELSE IF Truthy(t1) /\ Truthy(t2) /\ t1 # t2
                /\ Truthy(base1) /\ Truthy(base2) /\ base1 = base2 THEN t1
        ELSE IF Truthy(t1) THEN t1
        ELSE IF Truthy(t2) THEN t2
        ELSE <<"u", "n", "k", "n", "o", "w", "n">>

(***************************************************************************)
(* Log lines.  A line is given by what the script's regular expressions    *)
(* find in it (ac_server_log_watch.py:48-60): head is the anchored pattern *)
(* that matches, rest the text behind its literal prefix, and the other    *)
(* fields are the groups of the patterns that search anywhere in the line  *)
(* (None, or -1 for cuts, when the pattern does not match).                *)
(***************************************************************************)
NoLine == [blank |-> FALSE, head |-> "", rest |-> <<>>, player |-> <<>>,
           laptime |-> <<>>, info_track |-> None, info_config |-> None,
           content_rest |-> None, track_eq |-> None, cuts |-> -1]

BlankText == [NoLine EXCEPT !.blank = TRUE]
TrackText(v) == [NoLine EXCEPT !.head = "TRACK=", !.rest = v]
ConfigText(v) == [NoLine EXCEPT !.head = "CONFIG=", !.rest = v]
RequestedCarText(v) == [NoLine EXCEPT !.head = "REQUESTED CAR:", !.rest = v]
DriverAcceptedText(v) == [NoLine EXCEPT !.head = "DRIVER ACCEPTED FOR CAR", !.rest = v]
LapText(pl, t) == [NoLine EXCEPT !.head = "LAP", !.player = pl, !.laptime = t]
CutsText(n) == [NoLine EXCEPT !.cuts = n]

\* group "car" of requested_car_re on the text behind "REQUESTED CAR:":
\* \s* takes the leading blanks, the lazy .+? leaves one final * to (\*)?
requested_car_group(rest) ==
    LET t == lstrip(rest)
    IN  IF Len(t) >= 2 /\ t[Len(t)] = "*" THEN SubSeq(t, 1, Len(t) - 1) ELSE t

\* lines 196-201: the JSON-fragment fields
info_scan(l, cand) ==
    [track  |-> IF l.info_track # None THEN strip(l.info_track) ELSE cand.track,
     config |-> IF l.info_config # None THEN strip(l.info_config) ELSE cand.config]

\* the layout rule leaving the config candidate as it is
apply_parsed_keep_config(raw, cand) ==
    LET parsed == parse_track_from_string(raw)
    IN  IF ~Truthy(parsed) THEN cand
        ELSE IF Contains(parsed, "-") THEN [track |-> parsed, config |-> cand.config]
        ELSE [track |-> raw, config |-> cand.config]

\* lines 208-217 and 233-241: a resolved token with a layout becomes the
\* track candidate and clears the config candidate, one without a layout
\* leaves its raw text as the track candidate
apply_parsed(raw, cand) ==
    LET parsed == parse_track_from_string(raw)
    IN  IF ~Truthy(parsed) THEN cand
        ELSE IF Contains(parsed, "-") THEN [track |-> parsed, config |-> None]
        ELSE [track |-> raw, config |-> cand.config]

\* lines 204-219
content_scan(l, cand) == apply_parsed(l.content_rest, info_scan(l, cand))

\* lines 196-243 for a line without a content/tracks path
track_eq_scan(l, cand) ==
    IF l.track_eq # None THEN apply_parsed(unquote(l.track_eq), info_scan(l, cand))
    ELSE info_scan(l, cand)

Observed == [track |-> observed_track_candidate, config |-> observed_config_candidate]

SetObserved(cand) ==
    /\ observed_track_candidate' = cand.track
    /\ observed_config_candidate' = cand.config

\* which branch of the loop body a line ends in
IsTrackLine(l) == ~l.blank /\ l.head = "TRACK="
IsConfigLine(l) == ~l.blank /\ l.head = "CONFIG="
Scanned(l) == ~l.blank /\ l.head \notin {"TRACK=", "CONFIG="}
IsContentPathLine(l) == Scanned(l) /\ l.content_rest # None
Dispatched(l) == Scanned(l) /\ l.content_rest = None
IsRequestedCarLine(l) == Dispatched(l) /\ l.head = "REQUESTED CAR:"
IsDriverAcceptedLine(l) == Dispatched(l) /\ l.head = "DRIVER ACCEPTED FOR CAR"
IsCutsLine(l) ==
    /\ Dispatched(l)
    /\ l.head \notin {"REQUESTED CAR:", "DRIVER ACCEPTED FOR CAR"}
    /\ l.cuts >= 0
IsLapLine(l) == Dispatched(l) /\ l.head = "LAP" /\ l.cuts < 0
IsOtherLine(l) == Dispatched(l) /\ l.head = "" /\ l.cuts < 0

(***************************************************************************)
(* The loop body (ac_server_log_watch.py:176-332), one action per branch.  *)
(***************************************************************************)
MaxLines == 5

unknown == <<"u", "n", "k", "n", "o", "w", "n">>

P1 == <<"P", "1">>
P2 == <<"P", "2">>
audi == <<"a", "u", "d", "i">>
bmw == <<"b", "m", "w">>

SessionLines ==
    { RequestedCarText(<<" ">> \o audi), RequestedCarText(<<" ">> \o bmw \o <<"*">>),
      RequestedCarText(<<" ", "*">>),
      DriverAcceptedText(P1), DriverAcceptedText(P2), DriverAcceptedText(<<"1", "2">>),
      CutsText(0), CutsText(1),
      LapText(P1, <<"1", ":", "2", "3", ":", "4", "5", "6">>),
      LapText(P1, <<"2", ":", "0", "0">>),
      LapText(P2, <<"8", "3", "4", "5", "6">>),
      LapText(P1, <<"1", ":", "2", "3", ".", "4", "5", "6">>),
      LapText(P2, <<"1", ":">>),
      LapText(P2, <<"1", ".", "5">>),
      TrackText(<<"k">>),
      BlankText, NoLine }

TrackLines ==
    { TrackText(<<"c", "s", "p", "/", "0", "/", "k">>), TrackText(<<" ", "m", "/", "n">>),
      ConfigText(<<"s">>),
      [TrackText(<<"k", " ", "\"", "C", "O", "N", "F", "I", "G", "\"", ":",
                   "\"", "s", "\"">>)
          EXCEPT !.info_config = <<"s">>],
      [NoLine EXCEPT !.info_config = <<"s">>, !.content_rest = <<"c", "s", "p">>],
      [NoLine EXCEPT !.content_rest = <<"k", "/", "s">>],
      [NoLine EXCEPT !.info_track = <<"k">>, !.info_config = <<>>],
      [NoLine EXCEPT !.content_rest = <<"k", "/", "s", "/", "d", ".", "i", "n", "i">>],
      [NoLine EXCEPT !.content_rest = <<"m", "/", "d", ".", "i", "n", "i">>],
      [NoLine EXCEPT !.content_rest = <<"c", "s", "p">>],
      [NoLine EXCEPT !.track_eq = <<"k", "%", "2", "F", "s">>],
      [NoLine EXCEPT !.track_eq = <<"m">>],
      DriverAcceptedText(P1), CutsText(0),
      LapText(P1, <<"2", ":", "0", "0">>),
      BlankText }

Feeds == {"session", "tracks"}

Lines == IF feed = "session" THEN SessionLines ELSE TrackLines

Running == raised = "none"

\* the for loop hands the next line to the body
Read(l) ==
    /\ Running
    /\ nlines < MaxLines
    /\ l \in Lines
    /\ line' = l
    /\ nlines' = nlines + 1
    /\ dropped' = IF IsLapLine(l) THEN last_lap ELSE dropped
    /\ UNCHANGED <<feed, tailVars, codecVars, trackVars>>

\* line 178-179
BlankLine ==
    \E l \in Lines :
        /\ Read(l)
        /\ l.blank
        /\ printed' = <<>>
        /\ UNCHANGED <<player_car_map, pending_cars_queue, pending_laps, last_lap,
                       observed_track_candidate, observed_config_candidate,
                       lap_times, raised>>

\* lines 182-187
TrackLine ==
    \E l \in Lines :
        /\ Read(l)
        /\ IsTrackLine(l)
        /\ observed_track_candidate' = strip(l.rest)
        /\ printed' = <<>>
        /\ UNCHANGED <<player_car_map, pending_cars_queue, pending_laps, last_lap,
                       observed_config_candidate, lap_times, raised>>

\* lines 190-193
ConfigLine ==
    \E l \in Lines :
        /\ Read(l)
        /\ IsConfigLine(l)
        /\ observed_config_candidate' = strip(l.rest)
        /\ printed' = <<>>
        /\ UNCHANGED <<player_car_map, pending_cars_queue, pending_laps, last_lap,
                       observed_track_candidate, lap_times, raised>>

\* lines 196-219
ContentPathLine ==
    \E l \in Lines :
        /\ Read(l)
        /\ IsContentPathLine(l)
        /\ SetObserved(content_scan(l, Observed))
        /\ printed' = <<>>
        /\ UNCHANGED <<player_car_map, pending_cars_queue, pending_laps, last_lap,
                       lap_times, raised>>

\* lines 196-246 with no branch taken after them
OtherLine ==
    \E l \in Lines :
        /\ Read(l)
        /\ IsOtherLine(l)
        /\ SetObserved(track_eq_scan(l, Observed))
        /\ printed' = <<>>
        /\ UNCHANGED <<player_car_map, pending_cars_queue, pending_laps, last_lap,
                       lap_times, raised>>

\* lines 249-253
RequestedCarLine ==
    \E l \in Lines :
        /\ Read(l)
        /\ IsRequestedCarLine(l)
        /\ SetObserved(track_eq_scan(l, Observed))
        /\ pending_cars_queue' =
               Append(pending_cars_queue,
                      [player |-> None,
                       car |-> rstripChar(strip(requested_car_group(l.rest)), "*")])
        /\ printed' = <<>>
        /\ UNCHANGED <<player_car_map, pending_laps, last_lap, lap_times, raised>>

\* list.remove(x): the first element equal to x goes
remove(seq, x) ==
    IF \E i \in 1..Len(seq) : seq[i] = x
    THEN LET i == CHOOSE j \in 1..Len(seq) :
                      seq[j] = x /\ \A k \in 1..(j - 1) : seq[k] # x
         IN  SubSeq(seq, 1, i - 1) \o SubSeq(seq, i + 1, Len(seq))
    ELSE seq

\* a flush that takes only its first lap off the list
remove_first_only(seq, xs) == IF xs = <<>> THEN seq ELSE remove(seq, Head(xs))

RECURSIVE remove_each(_, _)
remove_each(seq, xs) ==
    IF xs = <<>> THEN seq ELSE remove_each(remove(seq, Head(xs)), Tail(xs))

\* dict.get(key) and dict[key] = value
get(map, key) == IF key \in DOMAIN map THEN map[key] ELSE None

\* dict.setdefault(key, value): a key already present keeps its value
put_if_absent(map, key, value) ==
    [k \in DOMAIN map \cup {key} |-> IF k \in DOMAIN map THEN map[k] ELSE value]

put(map, key, value) ==
    [k \in DOMAIN map \cup {key} |-> IF k = key THEN value ELSE map[k]]

\* the loop taking the request queued last
newest_request(queue) == Len(queue)

\* lines 263-264: the request the for loop stops at (0: none)
waiting_request(queue) ==
    IF \E i \in 1..Len(queue) : queue[i].player = None
    THEN CHOOSE i \in 1..Len(queue) :
             queue[i].player = None /\ \A k \in 1..(i - 1) : queue[k].player # None
    ELSE 0

RECURSIVE reversed(_)
reversed(seq) == IF seq = <<>> THEN <<>> ELSE Append(reversed(Tail(seq)), Head(seq))

\* the flush loop visiting the newest lap first
laps_newest_first(laps, player) ==
    reversed(SelectSeq(laps, LAMBDA lap : lap.player = player))

\* lines 274-275: the laps the flush loop visits, in its order
laps_to_flush(laps, player) == SelectSeq(laps, LAMBDA lap : lap.player = player)

\* a name that is kept although it is a number
is_noise_name_empty_only(player) == ~Truthy(player)

\* line 259: the names the driver-accepted branch passes over
is_noise_name(player) == ~Truthy(player) \/ isdigit(player)

\* a lap with one cut still counting
lap_is_valid_one_cut(cuts) == cuts <= 1

\* line 300
lap_is_valid(cuts) == cuts = 0

\* a lap-report that keeps the candidate it finds
buffer_lap_keep_first(old, new) == IF old # <<>> THEN old ELSE <<new>>

\* line 331: last_lap after a lap-report, old being last_lap before it
buffer_lap(old, new) == <<new>>

\* one row of lap_times, with the names the three ids stand for
Row(player, car, track, laptime_ms) ==
    [player |-> player, car |-> car, track |-> track, laptime_ms |-> laptime_ms]

Status(tag, player, car, laptime_ms, track) ==
    [tag |-> tag, player |-> player, car |-> car, laptime_ms |-> laptime_ms,
     track |-> track]

\* a flushed lap stamped with the track of the moment of the flush
flushed_row_restamped(player, car, lap) ==
    Row(player, car,
        normalize_track(observed_track_candidate', observed_config_candidate'),
        lap.laptime)

\* lines 276-282: the row a flushed lap is stored as
flushed_row(player, car, lap) == Row(player, car, lap.track, lap.laptime)

\* lines 256-286.  get_or_create, the INSERT and the commit can raise
\* sqlite3.Error: the flush then stops at that lap, k laps having been
\* committed, and the exception leaves the loop.
DriverAcceptedLine ==
    \E l \in Lines :
        /\ Read(l)
        /\ IsDriverAcceptedLine(l)
        /\ SetObserved(track_eq_scan(l, Observed))
        /\ UNCHANGED last_lap
        /\ LET player == strip(l.rest)
           IN  IF is_noise_name(player)
               THEN /\ printed' = <<>>
                    /\ UNCHANGED <<player_car_map, pending_cars_queue, pending_laps,
                                   lap_times, raised>>
               ELSE LET i    == waiting_request(pending_cars_queue)
                        car  == IF i > 0 THEN pending_cars_queue[i].car ELSE unknown
                        q1   == [pending_cars_queue EXCEPT ![i].player = player]
                        mine == laps_to_flush(pending_laps, player)
                    IN  /\ player_car_map' = put(player_car_map, player, car)
                        /\ pending_cars_queue' =
                               IF i > 0 THEN remove(q1, q1[i]) ELSE pending_cars_queue
                        /\ \E k \in 0..Len(mine) :
                               /\ lap_times' = lap_times \o
                                      [j \in 1..k |-> flushed_row(player, car, mine[j])]
                               /\ printed' =
                                      [j \in 1..k |->
                                          Status("PENDING FLUSH", player, car,
                                                 mine[j].laptime, mine[j].track)]
                               /\ pending_laps' = remove_each(pending_laps, SubSeq(mine, 1, k))
                               /\ raised' = IF k < Len(mine) THEN "sqlite3.Error" ELSE "none"

\* lines 289-324
CutsLine ==
    \E l \in Lines :
        /\ Read(l)
        /\ IsCutsLine(l)
        /\ SetObserved(track_eq_scan(l, Observed))
        /\ UNCHANGED <<player_car_map, pending_cars_queue>>
        /\ IF last_lap = <<>>
           THEN /\ printed' = <<>>
                /\ UNCHANGED <<pending_laps, last_lap, lap_times, raised>>
           ELSE LET cuts   == l.cuts
                    pl     == last_lap[1].player
                    lap_ms == last_lap[1].lap_ms
                    cand   == track_eq_scan(l, Observed)
                    track_for_lap == normalize_track(cand.track, cand.config)
                    car    == get(player_car_map, pl)
                IN  IF lap_is_valid(cuts)
                    THEN IF Truthy(car)
                         THEN \/ /\ lap_times' =
                                        Append(lap_times, Row(pl, car, track_for_lap, lap_ms))
                                 /\ printed' =
                                        <<Status("LAP", pl, car, lap_ms, track_for_lap)>>
                                 /\ last_lap' = <<>>
                                 /\ UNCHANGED <<pending_laps, raised>>
                              \/ /\ raised' = "sqlite3.Error"
                                 /\ printed' = <<>>
                                 /\ UNCHANGED <<pending_laps, last_lap, lap_times>>
                         ELSE /\ pending_laps' =
                                     Append(pending_laps,
                                            [player |-> pl, laptime |-> lap_ms,
                                             track |-> track_for_lap])
                              /\ printed' =
                                     <<Status("QUEUED", pl, None, lap_ms, track_for_lap)>>
                              /\ last_lap' = <<>>
                              /\ UNCHANGED <<lap_times, raised>>
                    ELSE /\ printed' =
                                <<Status("LAP IGNORED - CUTS", pl, None, lap_ms,
                                         track_for_lap)>>
                         /\ last_lap' = <<>>
                         /\ UNCHANGED <<pending_laps, lap_times, raised>>

\* lines 327-332: a ValueError of lap_to_ms leaves the loop
LapLine ==
    \E l \in Lines :
        /\ Read(l)
        /\ IsLapLine(l)
        /\ SetObserved(track_eq_scan(l, Observed))
        /\ printed' = <<>>
        /\ UNCHANGED <<player_car_map, pending_cars_queue, pending_laps, lap_times>>
        /\ LET pl == strip(l.player)
               r  == lap_to_ms(l.laptime)
           IN  IF r.raised # "none"
               THEN raised' = r.raised /\ UNCHANGED last_lap
               ELSE /\ last_lap' = buffer_lap(last_lap, [player |-> pl, lap_ms |-> r.value])
                    /\ UNCHANGED raised

(***************************************************************************)
(* Initial values of the groups of variables a specification does not use. *)
(***************************************************************************)
SessionIdle ==
    /\ player_car_map = <<>>
    /\ pending_cars_queue = <<>>
    /\ pending_laps = <<>>
    /\ last_lap = <<>>
    /\ observed_track_candidate = None
    /\ observed_config_candidate = None
    /\ lap_times = <<>>
    /\ line = NoLine
    /\ printed = <<>>
    /\ nlines = 0
    /\ feed = "session"
    /\ dropped = <<>>

TailIdle ==
    /\ files = <<>>
    /\ file_positions = <<>>
    /\ yielded = <<>>
    /\ at_last_poll = <<>>
    /\ at_prev_poll = <<>>
    /\ prev_positions = <<>>
    /\ truncated = 0

CodecIdle ==
    /\ lap_str = <<>>
    /\ ms_in = 0
    /\ codec_out = <<>>

TrackIdle ==
    /\ candidates = <<>>
    /\ track_out = <<>>

(***************************************************************************)
(* The session: the state after lines 155-163, then the loop body on each  *)
(* line read.                                                              *)
(***************************************************************************)
Init ==
    /\ player_car_map = <<>>
    /\ pending_cars_queue = <<>>
    /\ pending_laps = <<>>
    /\ last_lap = <<>>
    /\ observed_track_candidate = None
    /\ observed_config_candidate = None
    /\ lap_times = <<>>
    /\ line = NoLine
    /\ printed = <<>>
    /\ nlines = 0
    /\ feed \in Feeds
    /\ dropped = <<>>
    /\ raised = "none"
    /\ TailIdle /\ CodecIdle /\ TrackIdle

Next ==
    \/ BlankLine
    \/ TrackLine
    \/ ConfigLine
    \/ ContentPathLine
    \/ OtherLine
    \/ RequestedCarLine
    \/ DriverAcceptedLine
    \/ CutsLine
    \/ LapLine

Spec == Init /\ [][Next]_vars

(***************************************************************************)
(* The lap-time codec on its own: lap_to_ms on duration texts over the     *)
(* characters lap_re lets through ([\d:.]+), format_laptime on             *)
(* millisecond values, and the text of the one read back by the other.     *)
(***************************************************************************)
MaxTextLen == 4

DurationChars == {"0", "1", ":", "."}

DurationTexts == UNION { [1..n -> DurationChars] : n \in 1..MaxTextLen }

MsValues == {0, 1, 999, 1000, 59999, 60000, 83456, 600000, 5999999}

CodecInit ==
    /\ lap_str \in DurationTexts
    /\ ms_in \in MsValues
    /\ codec_out = [op |-> "none", text |-> <<>>, result |-> Returned(0)]
    /\ raised = "none"
    /\ SessionIdle /\ TailIdle /\ TrackIdle

ParseDuration ==
    /\ codec_out.op = "none"
    /\ codec_out' = [op |-> "lap_to_ms", text |-> lap_str, result |-> lap_to_ms(lap_str)]
    /\ UNCHANGED <<lap_str, ms_in, raised, sessionVars, tailVars, trackVars>>

FormatDuration ==
    /\ codec_out.op = "none"
    /\ codec_out' = [op |-> "format_laptime", text |-> format_laptime(ms_in),
                     result |-> Returned(ms_in)]
    /\ UNCHANGED <<lap_str, ms_in, raised, sessionVars, tailVars, trackVars>>

\* lap_to_ms(format_laptime(ms))
ParseFormatted ==
    /\ codec_out.op = "format_laptime"
    /\ codec_out' = [op |-> "round_trip", text |-> codec_out.text,
                     result |-> lap_to_ms(codec_out.text)]
    /\ UNCHANGED <<lap_str, ms_in, raised, sessionVars, tailVars, trackVars>>

CodecNext == ParseDuration \/ FormatDuration \/ ParseFormatted

SpecCodec == CodecInit /\ [][CodecNext]_vars

(***************************************************************************)
(* The track resolver on its own: parse_track_from_string on a raw text,   *)
(* on its own result, and normalize_track on a pair of candidates.         *)
(***************************************************************************)
MaxChunks == 3

Chunks == { <<"k">>, <<"-", "s">>, <<"/">>, <<"\\">>, <<".">>, <<"0">>, <<" ">>,
            <<"%", "2", "F">>, <<"%", "2", "5", "2", "F">>, <<"C", "s", "p">> }

RECURSIVE Flatten(_)
Flatten(chunks) == IF chunks = <<>> THEN <<>> ELSE Head(chunks) \o Flatten(Tail(chunks))

RawTexts == { Flatten(c) : c \in UNION { [1..n -> Chunks] : n \in 0..MaxChunks } }

ks_nordschleife ==
    <<"k", "s", "_", "n", "o", "r", "d", "s", "c", "h", "l", "e", "i", "f", "e">>

touristenfahrten ==
    <<"t", "o", "u", "r", "i", "s", "t", "e", "n", "f", "a", "h", "r", "t", "e", "n">>

TrackCandidates ==
    { None, <<>>, <<"k">>, <<"k", "/", "s">>, <<"k", "-", "s">>, <<"c", "s", "p">>,
      <<"c", "s", "p", "/", "0", "/">> \o ks_nordschleife, unknown }

ConfigCandidates ==
    { None, <<>>, <<"s">>, <<"k">>, <<"m", "/", "n">>, <<"0">>, touristenfahrten }

CandidatePairs ==
    { [track |-> t, config |-> None] : t \in RawTexts }
        \cup { [track |-> t, config |-> c] : t \in TrackCandidates, c \in ConfigCandidates }

TrackInit ==
    /\ candidates \in CandidatePairs
    /\ track_out = [op |-> "none", arg |-> None, value |-> None]
    /\ raised = "none"
    /\ SessionIdle /\ TailIdle /\ CodecIdle

ExtractTrackToken ==
    /\ track_out.op = "none"
    /\ track_out' = [op |-> "parse", arg |-> candidates.track,
                     value |-> parse_track_from_string(candidates.track)]
    /\ UNCHANGED <<candidates, raised, sessionVars, tailVars, codecVars>>

\* the resolver applied to what it returned
ExtractAgain ==
    /\ track_out.op = "parse"
    /\ track_out.value # None
    /\ track_out' = [op |-> "parse_again", arg |-> track_out.value,
                     value |-> parse_track_from_string(track_out.value)]
    /\ UNCHANGED <<candidates, raised, sessionVars, tailVars, codecVars>>

Normalize ==
    /\ track_out.op = "none"
    /\ track_out' = [op |-> "normalize", arg |-> candidates.track,
                     value |-> normalize_track(candidates.track, candidates.config)]
    /\ UNCHANGED <<candidates, raised, sessionVars, tailVars, codecVars>>

TrackNext == ExtractTrackToken \/ ExtractAgain \/ Normalize

SpecTrack == TrackInit /\ [][TrackNext]_vars

(***************************************************************************)
(* The file tailer: the while loop of ac_server_log_watch.py:168-179 and   *)
(* 334-337 over the files of the log folder, which the server appends to.  *)
(* What the loop body does with a line is left open here, but for this:    *)
(* on a line that is not blank it may raise (lap_to_ms, sqlite3), and the  *)
(* exception leaves the while loop.                                        *)
(***************************************************************************)
\* characters the server writes in all
MaxWritten == 4

\* sorted(glob.glob(.../output_*))
LogFiles == <<"output_1", "output_2">>

FileChars == {"a", "\n"}

\* file_positions[logfile] once lines 171-172 have run
offset(f) == IF f \in DOMAIN file_positions THEN file_positions[f] ELSE 0

\* what f.seek(p) leaves to read
unread(content, p) ==
    IF p >= Len(content) THEN <<>> ELSE SubSeq(content, p + 1, Len(content))

\* for raw_line in f: each line with its newline, and the rest of the file
\* behind the last newline as a final line when there is any
RECURSIVE readlines(_)
readlines(data) ==
    IF data = <<>> THEN <<>>
    ELSE IF ~Contains(data, "\n") THEN <<data>>
    ELSE LET i == CHOOSE j \in 1..Len(data) :
                      data[j] = "\n" /\ \A k \in 1..(j - 1) : data[k] # "\n"
         IN  <<SubSeq(data, 1, i)>> \o readlines(SubSeq(data, i + 1, Len(data)))

\* an offset that is not moved
tell_stale(content, p) == p

\* the size of the file taken as the new offset
tell_file_size(content, p) == Len(content)

\* f.tell() after the iteration: the end of the file, or the offset the
\* seek went to when that is behind the end
tell(content, p) == IF p > Len(content) THEN p ELSE Len(content)

Found == SelectSeq(LogFiles, LAMBDA f : f \in DOMAIN files)

FoundAt(f) == CHOOSE i \in 1..Len(Found) : Found[i] = f

\* where the loop body can raise: file i of the poll, line j of its new lines
RaisePoints ==
    { p \in (1..Len(Found)) \X (1..MaxWritten) :
        LET new == readlines(unread(files[Found[p[1]]], offset(Found[p[1]])))
        IN  p[2] <= Len(new) /\ strip(new[p[2]]) # <<>> }

RECURSIVE TotalLen(_)
TotalLen(fs) == IF fs = <<>> THEN 0 ELSE Len(files[Head(fs)]) + TotalLen(Tail(fs))

Written == TotalLen(Found)

\* the server writes one more character to a log file (a new file at first)
Write ==
    \E f \in {LogFiles[i] : i \in 1..Len(LogFiles)}, c \in FileChars :
        /\ Running
        /\ Written + truncated < MaxWritten
        /\ files' = put(files, f, IF f \in DOMAIN files THEN Append(files[f], c) ELSE <<c>>)
        /\ UNCHANGED <<file_positions, yielded, at_last_poll, at_prev_poll,
                       prev_positions, truncated, raised, sessionVars, codecVars,
                       trackVars>>

\* one round of the while loop; stop = <<0, 0>> when no line raises
Poll ==
    \E stop \in RaisePoints \cup {<<0, 0>>} :
        LET visited(f)  == f \in DOMAIN files /\ (stop[1] = 0 \/ FoundAt(f) <= stop[1])
            finished(f) == f \in DOMAIN files /\ (stop[1] = 0 \/ FoundAt(f) < stop[1])
            known       == DOMAIN file_positions \cup {f \in DOMAIN files : visited(f)}
            new(f)      == readlines(unread(files[f], offset(f)))
        IN  /\ Running
            /\ file_positions' =
                   [f \in known |-> IF finished(f) THEN tell(files[f], offset(f))
                                    ELSE offset(f)]
            /\ prev_positions' = [f \in known |-> offset(f)]
            /\ yielded' =
                   [f \in known |-> IF finished(f) THEN new(f)
                                    ELSE IF visited(f) THEN SubSeq(new(f), 1, stop[2])
                                    ELSE yielded[f]]
            /\ at_last_poll' =
                   [f \in known |-> IF finished(f) THEN files[f]
                                    ELSE IF f \in DOMAIN at_last_poll THEN at_last_poll[f]
                                    ELSE <<>>]
            /\ at_prev_poll' =
                   [f \in known |-> IF finished(f) /\ f \in DOMAIN at_last_poll
                                    THEN at_last_poll[f]
                                    ELSE IF f \in DOMAIN at_prev_poll THEN at_prev_poll[f]
                                    ELSE <<>>]
            /\ raised' = IF stop[1] = 0 THEN "none" ELSE "Exception"
            /\ UNCHANGED <<files, truncated, sessionVars, codecVars, trackVars>>

TailInit ==
    /\ TailIdle
    /\ raised = "none"
    /\ SessionIdle /\ CodecIdle /\ TrackIdle

TailNext == Write \/ Poll

SpecTail == TailInit /\ [][TailNext]_vars

(***************************************************************************)
(* The log folder with files the tailer cannot open.  glob lists a file    *)
(* at line 169 and open() at line 174 finds it gone or unreadable: open    *)
(* raises FileNotFoundError or PermissionError, both OSError, inside the   *)
(* try of line 167, whose only handler is except KeyboardInterrupt.        *)
(***************************************************************************)

\* a round of the while loop in which open() raises at file i of the
\* listing: the files before it are read to their ends, file i has had its
\* offset initialised by lines 171-172, and the exception leaves the loop
PollOpenFails ==
    \E i \in 1..Len(Found) :
        LET visited(f)  == f \in DOMAIN files /\ FoundAt(f) <= i
            finished(f) == f \in DOMAIN files /\ FoundAt(f) < i
            known       == DOMAIN file_positions \cup {f \in DOMAIN files : visited(f)}
            new(f)      == readlines(unread(files[f], offset(f)))
        IN  /\ Running
            /\ file_positions' =
                   [f \in known |-> IF finished(f) THEN tell(files[f], offset(f))
                                    ELSE offset(f)]
            /\ prev_positions' = [f \in known |-> offset(f)]
            /\ yielded' =
                   [f \in known |-> IF finished(f) THEN new(f)
                                    ELSE IF visited(f) THEN <<>>
                                    ELSE yielded[f]]
            /\ at_last_poll' =
                   [f \in known |-> IF finished(f) THEN files[f]
                                    ELSE IF f \in DOMAIN at_last_poll THEN at_last_poll[f]
                                    ELSE <<>>]
            /\ at_prev_poll' =
                   [f \in known |-> IF finished(f) /\ f \in DOMAIN at_last_poll
                                    THEN at_last_poll[f]
                                    ELSE IF f \in DOMAIN at_prev_poll THEN at_prev_poll[f]
                                    ELSE <<>>]
            /\ raised' = "OSError"
            /\ UNCHANGED <<files, truncated, sessionVars, codecVars, trackVars>>

FolderNext == Write \/ Poll \/ PollOpenFails

SpecFolder == TailInit /\ [][FolderNext]_vars

(***************************************************************************)
(* The log folder with files that shrink: the server, or a rotation of the *)
(* logs, cuts a file back to a shorter text, to which it may then append.  *)
(* The loop does not look at the size of a file: line 175 seeks to the     *)
(* stored offset wherever the end of the file is.                          *)
(***************************************************************************)

\* a log file is cut back to its first n characters
Truncate ==
    \E f \in DOMAIN files :
        \E n \in 0..(Len(files[f]) - 1) :
            /\ Running
            /\ truncated' = truncated + (Len(files[f]) - n)
            /\ files' = [files EXCEPT ![f] = SubSeq(files[f], 1, n)]
            /\ UNCHANGED <<file_positions, yielded, at_last_poll, at_prev_poll,
                           prev_positions, raised, sessionVars, codecVars, trackVars>>

RotateNext == Write \/ Truncate \/ Poll

SpecRotate == TailInit /\ [][RotateNext]_vars

(***************************************************************************)
(* Properties.                                                             *)
(***************************************************************************)
\* the step is the loop body running on the line line'
Handled == nlines' = nlines + 1

\* a duration text of the form M:SS.mmm and the milliseconds it denotes
IsClockText(t) ==
    /\ Len(split(t, ":")) = 2
    /\ isdigit(split(t, ":")[1])
    /\ Len(split(split(t, ":")[2], ".")) = 2
    /\ isdigit(split(split(t, ":")[2], ".")[1])
    /\ Len(split(split(t, ":")[2], ".")[1]) = 2
    /\ isdigit(split(split(t, ":")[2], ".")[2])
    /\ Len(split(split(t, ":")[2], ".")[2]) = 3

ClockMs(t) ==
    int(split(t, ":")[1]) * 60000 + int(split(split(t, ":")[2], ".")[1]) * 1000
        + int(split(split(t, ":")[2], ".")[2])

\* the rows a step adds to lap_times, the laps it adds to pending_laps
NewRows == SubSeq(lap_times', Len(lap_times) + 1, Len(lap_times'))
NewPending == SubSeq(pending_laps', Len(pending_laps) + 1, Len(pending_laps'))

\* C1: a lap-report whose duration text has the form M:SS.mmm becomes the
\* Lap Candidate with the millisecond value of the text (LAP X 1:23.456:
\* 83456), and the Cuts: 0 line behind it stores one lap of that player with
\* that value, or queues it when the player has no car yet.
C1_ClockLapStored ==
    [][Handled =>
          /\ (IsLapLine(line') /\ IsClockText(line'.laptime)) =>
                 /\ raised' = "none"
                 /\ last_lap' = <<[player |-> strip(line'.player),
                                   lap_ms |-> ClockMs(line'.laptime)]>>
          /\ (IsLapLine(line) /\ IsClockText(line.laptime)
                 /\ IsCutsLine(line') /\ line'.cuts = 0 /\ raised' = "none") =>
                 \/ /\ Len(NewRows) = 1
                    /\ NewRows[1].player = strip(line.player)
                    /\ NewRows[1].laptime_ms = ClockMs(line.laptime)
                 \/ /\ Len(NewPending) = 1
                    /\ NewPending[1].player = strip(line.player)
                    /\ NewPending[1].laptime = ClockMs(line.laptime)]_vars

\* a duration text with a field that is empty or not a number
HasBadField(t) == \E i \in 1..Len(split(t, ":")) : ~isdigit(split(t, ":")[i])

\* C2: a lap-report with a malformed duration does not end the run; the line
\* is skipped, and the Lap Candidate, the car queue, the player-car map, the
\* pending laps and the track candidates stay as they were.
C2_MalformedLapSkipped ==
    [][(Handled /\ IsLapLine(line') /\ HasBadField(line'.laptime)) =>
          /\ raised' = "none"
          /\ UNCHANGED <<last_lap, pending_cars_queue, player_car_map, pending_laps,
                         observed_track_candidate, observed_config_candidate>>]_vars

\* the player a driver-accepted line names, when the name is taken
AcceptedPlayer(l) == strip(l.rest)
NamesDriver(l) ==
    IsDriverAcceptedLine(l) /\ AcceptedPlayer(l) # <<>> /\ ~isdigit(AcceptedPlayer(l))

\* C3: a driver-accepted line with a valid player name that arrives while car
\* requests are queued gives the player the car of the oldest request, takes
\* exactly that request off the queue and leaves the others in their order.
C3_FifoCarAssignment ==
    [][(Handled /\ NamesDriver(line') /\ pending_cars_queue # <<>>) =>
          /\ AcceptedPlayer(line') \in DOMAIN player_car_map'
          /\ player_car_map'[AcceptedPlayer(line')] = Head(pending_cars_queue).car
          /\ pending_cars_queue' = Tail(pending_cars_queue)]_vars

\* C3 witness: requests for audi then bmw, accepted P1 then P2
C3_Witness ==
    /\ nlines = 4
    /\ line = DriverAcceptedText(P2)
    /\ get(player_car_map, P1) = audi
    /\ get(player_car_map, P2) = bmw
    /\ pending_cars_queue = <<>>

\* C4: the driver-accepted line of a player inserts the player's queued laps
\* in the order they were queued: the rows it adds are, one for one and in
\* order, the first of the player's pending laps, and all of them when no
\* storage call raises.
C4_FlushInQueueOrder ==
    [][(Handled /\ NamesDriver(line')) =>
          LET queued == SelectSeq(pending_laps,
                                  LAMBDA lap : lap.player = AcceptedPlayer(line'))
          IN  /\ Len(NewRows) <= Len(queued)
              /\ \A j \in 1..Len(NewRows) :
                     /\ NewRows[j].player = AcceptedPlayer(line')
                     /\ NewRows[j].laptime_ms = queued[j].laptime
                     /\ NewRows[j].track = queued[j].track
              /\ raised' = "none" => Len(NewRows) = Len(queued)]_vars

\* C4 witness: two different laps of P1 flushed by one driver-accepted line
C4_Witness ==
    /\ line = DriverAcceptedText(P1)
    /\ raised = "none"
    /\ Len(printed) = 2
    /\ printed[1].tag = "PENDING FLUSH"
    /\ printed[1].laptime_ms # printed[2].laptime_ms
    /\ Len(lap_times) = 2
    /\ lap_times[1].laptime_ms = printed[1].laptime_ms
    /\ lap_times[2].laptime_ms = printed[2].laptime_ms

\* C5: normalize_track merges the layout-less track candidate
\* csp/0/ks_nordschleife and the layout-less config candidate
\* touristenfahrten into ks_nordschleife-touristenfahrten.
C5_MergeTrackAndLayout ==
    (/\ track_out.op = "normalize"
     /\ candidates.track = <<"c", "s", "p", "/", "0", "/">> \o ks_nordschleife
     /\ candidates.config = touristenfahrten)
        => track_out.value = ks_nordschleife \o <<"-">> \o touristenfahrten

IsPrefix(s, t) == Len(s) <= Len(t) /\ SubSeq(t, 1, Len(s)) = s

\* a text made of whole lines
WholeLines(s) == s = <<>> \/ s[Len(s)] = "\n"

\* one line with its newline
IsWholeLine(s) == s # <<>> /\ s[Len(s)] = "\n" /\ ~Contains(SubSeq(s, 1, Len(s) - 1), "\n")

\* C6: when only whole lines were appended to a file between two polls, the
\* second poll yields exactly the appended lines, each once and in file
\* order, and after each poll the stored offset is the file length and not
\* smaller than the offset before.
C6_SecondPollYieldsAppended ==
    raised = "none" =>
        \A f \in DOMAIN file_positions :
            (/\ IsPrefix(at_prev_poll[f], at_last_poll[f])
             /\ WholeLines(unread(at_last_poll[f], Len(at_prev_poll[f]))))
                => /\ Flatten(yielded[f]) = unread(at_last_poll[f], Len(at_prev_poll[f]))
                   /\ \A i \in 1..Len(yielded[f]) : IsWholeLine(yielded[f][i])
                   /\ file_positions[f] = Len(at_last_poll[f])
                   /\ file_positions[f] >= prev_positions[f]

\* C6 witness: a second poll that found one appended line behind a first line
C6_Witness ==
    /\ raised = "none"
    /\ "output_1" \in DOMAIN file_positions
    /\ at_prev_poll["output_1"] = <<"a", "\n">>
    /\ at_last_poll["output_1"] = <<"a", "\n", "a", "\n">>
    /\ yielded["output_1"] = << <<"a", "\n">> >>
    /\ prev_positions["output_1"] = 2
    /\ file_positions["output_1"] = 4

\* C7: lap_to_ms reads the text format_laptime writes for ms back as ms.
C7_DurationRoundTrip ==
    codec_out.op = "round_trip" => codec_out.result = Returned(ms_in)

\* C8: a storage failure while a lap is stored or flushed does not end the
\* poll loop: no sqlite3.Error ever leaves it.
C8_StorageFailureNotFatal == raised # "sqlite3.Error"

\* C9: only complete lines are delivered: every line a poll yields ends with
\* its newline, so the written part of an unfinished line is not delivered.
C9_OnlyCompleteLines ==
    \A f \in DOMAIN yielded :
        \A i \in 1..Len(yielded[f]) : yielded[f][i][Len(yielded[f][i])] = "\n"

\* C10: parse_track_from_string returns a track-layout string it returned
\* unchanged.
C10_ResolverIdempotent ==
    (track_out.op = "parse_again" /\ Contains(track_out.arg, "-"))
        => track_out.value = track_out.arg


\* C11: a log file that cannot be opened in a poll is passed over as a file
\* with no new lines: the exception open() raises never ends the loop.
C11_UnopenableFileSkipped == raised # "OSError"

\* C12: a lap whose cuts-report counts more than zero cuts is neither stored
\* nor queued; a cuts-report that finds a Lap Candidate leaves none behind
\* whatever the count (when the loop goes on); a cuts-report stores or queues
\* at most one lap, and none when it finds no Lap Candidate, as a second
\* cuts-report with no lap-report in between does.
C12_CutLapsDiscarded ==
    [][(Handled /\ IsCutsLine(line')) =>
          /\ line'.cuts > 0 => (lap_times' = lap_times /\ pending_laps' = pending_laps)
          /\ (last_lap # <<>> /\ raised' = "none") => last_lap' = <<>>
          /\ last_lap = <<>> =>
                 (lap_times' = lap_times /\ pending_laps' = pending_laps
                     /\ last_lap' = <<>>)
          /\ \/ lap_times' = lap_times /\ pending_laps' = pending_laps
             \/ Len(lap_times') = Len(lap_times) + 1 /\ pending_laps' = pending_laps
             \/ Len(pending_laps') = Len(pending_laps) + 1 /\ lap_times' = lap_times]_vars

\* C12 witness: a lap of a player whose car is known, discarded by Cuts: 1
C12_Witness ==
    /\ line = CutsText(1)
    /\ Len(printed) = 1
    /\ printed[1].tag = "LAP IGNORED - CUTS"
    /\ printed[1].player \in DOMAIN player_car_map
    /\ last_lap = <<>>
    /\ lap_times = <<>>
    /\ pending_laps = <<>>

\* C13: at most one unconfirmed lap is buffered.  A lap-report makes its own
\* lap the Lap Candidate whatever candidate was there (an earlier lap-report
\* with no cuts-report behind it is dropped, also one of another player), and
\* a cuts-report stores or queues nothing but the Lap Candidate it finds.
C13_OneBufferedLap ==
    [][Handled =>
          /\ Len(last_lap') <= 1
          /\ (IsLapLine(line') /\ raised' = "none") =>
                 /\ Len(last_lap') = 1
                 /\ last_lap'[1].player = strip(line'.player)
                 /\ Returned(last_lap'[1].lap_ms) = lap_to_ms(line'.laptime)
          /\ IsCutsLine(line') =>
                 /\ Len(NewRows) + Len(NewPending) <= 1
                 /\ \A j \in 1..Len(NewRows) :
                        /\ last_lap # <<>>
                        /\ NewRows[j].player = last_lap[1].player
                        /\ NewRows[j].laptime_ms = last_lap[1].lap_ms
                 /\ \A j \in 1..Len(NewPending) :
                        /\ last_lap # <<>>
                        /\ NewPending[j].player = last_lap[1].player
                        /\ NewPending[j].laptime = last_lap[1].lap_ms]_vars

\* C13 witness: lap-reports of two players, then Cuts: 0; the lap of the
\* first is dropped and only the lap of the second is queued
C13_Witness ==
    /\ nlines = 3
    /\ line = CutsText(0)
    /\ dropped # <<>>
    /\ Len(printed) = 1
    /\ printed[1].player # dropped[1].player
    /\ printed[1].laptime_ms # dropped[1].lap_ms
    /\ lap_times = <<>>
    /\ Len(pending_laps) = 1
    /\ pending_laps[1].player = printed[1].player
    /\ pending_laps[1].laptime = printed[1].laptime_ms

\* C14: the track key of a lap is the one normalize_track gives for the track
\* candidates as the cuts-report of the lap leaves them; a pending lap keeps
\* its key while it waits, and the flush stores it with that key whatever the
\* candidates are by then.
C14_TrackKeyAtCutsReport ==
    [][Handled =>
          /\ IsCutsLine(line') =>
                 /\ \A j \in 1..Len(NewRows) :
                        NewRows[j].track =
                            normalize_track(observed_track_candidate',
                                            observed_config_candidate')
                 /\ \A j \in 1..Len(NewPending) :
                        NewPending[j].track =
                            normalize_track(observed_track_candidate',
                                            observed_config_candidate')
                 /\ SubSeq(pending_laps', 1, Len(pending_laps)) = pending_laps
          /\ NamesDriver(line') =>
                 LET queued == SelectSeq(pending_laps,
                                         LAMBDA lap : lap.player = AcceptedPlayer(line'))
                 IN  \A j \in 1..Len(NewRows) :
                         j <= Len(queued) /\ NewRows[j].track = queued[j].track
          /\ (~IsCutsLine(line') /\ ~NamesDriver(line')) =>
                 pending_laps' = pending_laps]_vars

\* C14 witness: a lap queued under one track key and flushed, under that key,
\* after the track candidates have moved to another
C14_Witness ==
    /\ line = DriverAcceptedText(P1)
    /\ Len(printed) = 1
    /\ printed[1].tag = "PENDING FLUSH"
    /\ Len(lap_times) = 1
    /\ lap_times[1].track # unknown
    /\ normalize_track(observed_track_candidate, observed_config_candidate) # unknown
    /\ lap_times[1].track #
           normalize_track(observed_track_candidate, observed_config_candidate)

\* C15: a driver-accepted line of a valid player P inserts P's pending laps
\* one for one, each once and with the car the line gives P, and takes just
\* the inserted laps off the queue; the pending laps of the other players
\* stay as they are and in their order; when the line is handled to its end
\* no lap of P is pending.
C15_FlushEmptiesPlayersLaps ==
    [][(Handled /\ NamesDriver(line')) =>
          LET P == AcceptedPlayer(line')
              mine(seq) == SelectSeq(seq, LAMBDA lap : lap.player = P)
              others(seq) == SelectSeq(seq, LAMBDA lap : lap.player # P)
              n == Len(NewRows)
          IN  /\ others(pending_laps') = others(pending_laps)
              /\ P \in DOMAIN player_car_map'
              /\ n <= Len(mine(pending_laps))
              /\ lap_times' = lap_times \o NewRows
              /\ \A j \in 1..n :
                     /\ NewRows[j].player = P
                     /\ NewRows[j].car = player_car_map'[P]
                     /\ NewRows[j].laptime_ms = mine(pending_laps)[j].laptime
                     /\ NewRows[j].track = mine(pending_laps)[j].track
              /\ mine(pending_laps') =
                     SubSeq(mine(pending_laps), n + 1, Len(mine(pending_laps)))
              /\ raised' = "none" => mine(pending_laps') = <<>>]_vars

\* C15 witness: laps of two players pending, the driver-accepted line of one
\* flushes that player's lap and leaves the other's
C15_Witness ==
    /\ IsDriverAcceptedLine(line)
    /\ raised = "none"
    /\ Len(printed) = 1
    /\ printed[1].tag = "PENDING FLUSH"
    /\ Len(lap_times) = 1
    /\ lap_times[1].player = AcceptedPlayer(line)
    /\ lap_times[1].car = get(player_car_map, AcceptedPlayer(line))
    /\ Len(pending_laps) = 1
    /\ pending_laps[1].player # AcceptedPlayer(line)

\* C16: a driver-accepted line of a valid player P that finds no car request
\* waiting sets P's car to "unknown", also when P had a car; the car of a
\* player changes only at a driver-accepted line of that player, and a
\* cuts-report stores its lap with the car the player has then.
C16_NoRequestGivesUnknown ==
    [][Handled =>
          /\ (NamesDriver(line')
                 /\ \A i \in 1..Len(pending_cars_queue) :
                        pending_cars_queue[i].player # None) =>
                 /\ AcceptedPlayer(line') \in DOMAIN player_car_map'
                 /\ player_car_map'[AcceptedPlayer(line')] = unknown
                 /\ \A j \in 1..Len(NewRows) : NewRows[j].car = unknown
          /\ \A p \in DOMAIN player_car_map :
                 ~(NamesDriver(line') /\ AcceptedPlayer(line') = p) =>
                     (p \in DOMAIN player_car_map' /\ player_car_map'[p] = player_car_map[p])
          /\ IsCutsLine(line') =>
                 \A j \in 1..Len(NewRows) :
                     NewRows[j].car = get(player_car_map, NewRows[j].player)]_vars

\* C16 witness: P1 has stored a lap with the car audi, and a second
\* driver-accepted line of P1 with no request waiting has set P1's car to
\* "unknown"
C16_Witness ==
    /\ line = DriverAcceptedText(P1)
    /\ raised = "none"
    /\ pending_cars_queue = <<>>
    /\ printed = <<>>
    /\ Len(lap_times) = 1
    /\ lap_times[1].player = P1
    /\ lap_times[1].car = audi
    /\ get(player_car_map, P1) = unknown

\* C17: a TRACK= or CONFIG= line that also holds a JSON fragment "TRACK":".."
\* or "CONFIG":".." has the fragment applied too: after the line the
\* candidate of the fragment is the fragment's value.
C17_JsonFieldsOnTrackLine ==
    (nlines > 0 /\ (IsTrackLine(line) \/ IsConfigLine(line))) =>
        /\ line.info_track # None => observed_track_candidate = strip(line.info_track)
        /\ line.info_config # None => observed_config_candidate = strip(line.info_config)

\* a line the loop takes to the content-path rule or to the track= rule, the
\* remainder the rule resolves, and the rule's effect on the candidates
\* that were before == [track, config] when it is applied
HasPathToken(l) == IsContentPathLine(l) \/ (Dispatched(l) /\ l.track_eq # None)

PathRemainder(l) == IF IsContentPathLine(l) THEN l.content_rest ELSE unquote(l.track_eq)

PathTokenRule(before) ==
    LET remainder == PathRemainder(line')
        resolved  == parse_track_from_string(remainder)
    IN  IF resolved = None
        THEN /\ observed_track_candidate' = before.track
             /\ observed_config_candidate' = before.config
        ELSE IF Contains(resolved, "-")
        THEN /\ observed_track_candidate' = resolved
             /\ observed_config_candidate' = None
        ELSE /\ observed_track_candidate' = remainder
             /\ observed_config_candidate' = before.config

\* the candidates as the JSON-fragment fields of the line leave them
AfterJsonFields ==
    [track  |-> IF line'.info_track # None THEN strip(line'.info_track)
                ELSE observed_track_candidate,
     config |-> IF line'.info_config # None THEN strip(line'.info_config)
                ELSE observed_config_candidate]

ResolvedToken(c) == IF c = None THEN None ELSE parse_track_from_string(c)

Preferred(t, c) ==
    LET r1 == ResolvedToken(t)
        r2 == ResolvedToken(c)
    IN  IF r1 # None /\ Contains(r1, "-") THEN r1
        ELSE IF r2 # None /\ Contains(r2, "-") THEN r2
        ELSE IF r1 # None THEN r1
        ELSE r2

C20_NoiseNameIgnored ==
    [][(Handled /\ IsDriverAcceptedLine(line')
           /\ (AcceptedPlayer(line') = <<>> \/ isdigit(AcceptedPlayer(line')))) =>
          /\ pending_cars_queue' = pending_cars_queue
          /\ player_car_map' = player_car_map
          /\ pending_laps' = pending_laps
          /\ last_lap' = last_lap
          /\ lap_times' = lap_times
          /\ raised' = "none"]_vars

\* C20 witness: a request waits, a lap is pending and a Lap Candidate is
\* buffered when a driver-accepted line with the name 12 has been handled
C20_Witness ==
    /\ line = DriverAcceptedText(<<"1", "2">>)
    /\ raised = "none"
    /\ Len(pending_cars_queue) = 1
    /\ pending_cars_queue[1].player = None
    /\ Len(pending_laps) = 1
    /\ last_lap # <<>>
    /\ player_car_map = <<>>
    /\ lap_times = <<>>

\* C21: over polls, appends and truncations the stored offset of a file
\* never decreases and is never dropped, and a poll that finds a file no
\* longer than its stored offset yields no line of it and keeps the offset.
C21_OffsetNeverDecreases ==
    [][\A f \in DOMAIN file_positions :
           /\ f \in DOMAIN file_positions'
           /\ file_positions'[f] >= file_positions[f]
           /\ (files' = files /\ raised' = "none" /\ f \in DOMAIN files
                  /\ Len(files[f]) <= file_positions[f]) =>
                  /\ yielded'[f] = <<>>
                  /\ file_positions'[f] = file_positions[f]]_vars

\* C21 witness: a file read to its end, cut back to a shorter text and
\* polled again: nothing is yielded and the offset stays behind the end
C21_Witness ==
    /\ raised = "none"
    /\ "output_1" \in DOMAIN file_positions
    /\ files["output_1"] = at_last_poll["output_1"]
    /\ Len(at_last_poll["output_1"]) < Len(at_prev_poll["output_1"])
    /\ IsPrefix(at_last_poll["output_1"], at_prev_poll["output_1"])
    /\ file_positions["output_1"] = Len(at_prev_poll["output_1"])
    /\ file_positions["output_1"] > Len(files["output_1"])
    /\ yielded["output_1"] = <<>>

\* C22: while the loop runs no lap is pending for a player who has an entry
\* in the player-car map, whatever car the entry holds (also the empty name
\* a car-requested line made of the marker * leaves).
C22_NoPendingLapForMappedPlayer ==
    raised = "none" =>
        \A i \in 1..Len(pending_laps) : pending_laps[i].player \notin DOMAIN player_car_map

====
